---- MODULE Spec2Model ----
(***************************************************************************)
(* Model of the audio multiplexer (src/src/main.rs, Multiplexer::run):     *)
(* the real-time process callback (ingest + drain loop), the housekeeping  *)
(* loop with the auto-pause decision, the mutex both share, the            *)
(* interleaving iterator (src/src/interleave_all.rs) and the SoundTouch    *)
(* wrapper (src/src/sound_touch.rs).                                       *)
(*                                                                         *)
(* Amplitudes are integers in units of 1/1000 (0.01 is 10, 0.0 is 0).      *)
(* A Vec<f32> or a port buffer is held run-length encoded: a sequence of   *)
(* runs [n |-> count, v |-> amplitude], count >= 1, adjacent runs of       *)
(* different amplitude.  Every vector has exactly one such encoding, so    *)
(* equality of encodings is equality of vectors, and frames of thousands   *)
(* of samples (the sizes at which 4800 and 48000 matter) stay small.       *)
(***************************************************************************)
EXTENDS Integers, Sequences, FiniteSets, TLC

(***************************************************************************)
(* Bounds of the model.                                                    *)
(***************************************************************************)
\* most Samples units one input takes in during a run of the model
MaxIngest == 4
\* receive counts tried: within MaxShort of 0 and within MaxShort of the request
MaxShort == 1

(***************************************************************************)
(* Program constants.                                                      *)
(***************************************************************************)
channel_count == 2
MaxSilence == 4800
pause_threshold == 48000
resume_threshold == 4800

\* frame lengths the device layer delivers (fixed for a session)
FrameSizes == {2400, 16384}

Min(a, b) == IF a < b THEN a ELSE b
Max(a, b) == IF a < b THEN b ELSE a
Abs(a) == IF a < 0 THEN 0 - a ELSE a

(***************************************************************************)
(* Vectors of samples, run-length encoded.                                 *)
(***************************************************************************)
Run(n, v) == [n |-> n, v |-> v]

RECURSIVE Norm(_)
Norm(r) ==
  IF r = << >> THEN << >>
  ELSE IF r[1].n = 0 THEN Norm(Tail(r))
  ELSE LET rest == Norm(Tail(r)) IN
       IF rest # << >> /\ rest[1].v = r[1].v
       THEN << Run(r[1].n + rest[1].n, r[1].v) >> \o Tail(rest)
       ELSE << r[1] >> \o rest

RECURSIVE VLen(_)
VLen(r) == IF r = << >> THEN 0 ELSE r[1].n + VLen(Tail(r))

\* vec![v; n]
VFill(n, v) == IF n = 0 THEN << >> ELSE << Run(n, v) >>

VCat(a, b) == Norm(a \o b)

\* the first k elements (all of r when k >= len)
RECURSIVE VTake(_, _)
VTake(r, k) ==
  IF r = << >> \/ k <= 0 THEN << >>
  ELSE IF r[1].n <= k THEN << r[1] >> \o VTake(Tail(r), k - r[1].n)
  ELSE << Run(k, r[1].v) >>

\* r without its first k elements
RECURSIVE VDrop(_, _)
VDrop(r, k) ==
  IF r = << >> \/ k <= 0 THEN r
  ELSE IF r[1].n <= k THEN VDrop(Tail(r), k - r[1].n)
  ELSE << Run(r[1].n - k, r[1].v) >> \o Tail(r)

\* iter().all(|f| f.abs() < 0.01)
AllBelowThreshold(r) == \A k \in 1..Len(r) : Abs(r[k].v) < 10

(***************************************************************************)
(* interleave_all(samples).collect(): InterleaveAll::next takes one        *)
(* element from iterators[index], steps index round-robin, and the         *)
(* collection stops at the first None.  A whole number of rounds in which  *)
(* every iterator yields the same amplitude is taken in one step.          *)
(***************************************************************************)
SetMin(S) == CHOOSE m \in S : \A x \in S : m <= x

RECURSIVE InterleaveCollect(_, _)
InterleaveCollect(iterators, index) ==
  LET K == Len(iterators) IN
  IF iterators[index + 1] = << >> THEN << >>
  ELSE IF /\ index = 0
          /\ \A k \in 1..K : /\ iterators[k] # << >>
                             /\ iterators[k][1].v = iterators[1][1].v
       THEN LET b == SetMin({iterators[k][1].n : k \in 1..K}) IN
            << Run(b * K, iterators[1][1].v) >>
              \o InterleaveCollect([k \in 1..K |-> VDrop(iterators[k], b)], 0)
       ELSE << Run(1, iterators[index + 1][1].v) >>
              \o InterleaveCollect([iterators EXCEPT ![index + 1] = VDrop(@, 1)],
                                   (index + 1) % K)

\* interleave_all with an index that never advances: only the first iterator
interleave_all_first(i) == i[1]

interleave_all(i) == Norm(InterleaveCollect(i, 0))

\* mixed_samples.iter().skip(index).step_by(channels).cloned().collect()
RECURSIVE SkipStepBy(_, _, _, _)
SkipStepBy(r, start, index, step) ==
  IF r = << >> THEN << >>
  ELSE LET Cnt(x) == IF x <= index THEN 0 ELSE (x - index + step - 1) \div step
           stop == start + r[1].n
       IN << Run(Cnt(stop) - Cnt(start), r[1].v) >>
            \o SkipStepBy(Tail(r), stop, index, step)

\* unmixed_samples without the skip(index): every channel starts at sample 0
unmixed_samples_noskip(mixed_samples, index, channels) ==
  Norm(SkipStepBy(mixed_samples, 0, 0, channels))

unmixed_samples(mixed_samples, index, channels) ==
  Norm(SkipStepBy(mixed_samples, 0, index, channels))

(***************************************************************************)
(* f32 arithmetic of Input::urgency.  A float is [s, e, m]: sign s in      *)
(* {-1, 0, 1}, value s * m * 2^e with 2^23 <= m < 2^24 (0.0 is s = 0).     *)
(* Results are rounded to nearest, ties to even, as IEEE 754 binary32.     *)
(***************************************************************************)
RECURSIVE Pow2(_)
Pow2(n) == IF n = 0 THEN 1 ELSE 2 * Pow2(n - 1)

RECURSIVE BitLen(_)
BitLen(x) == IF x = 0 THEN 0 ELSE 1 + BitLen(x \div 2)

F32Zero == [s |-> 0, e |-> 0, m |-> 0]

\* sign * (q + r / 2^sh) * 2^(u + sh) rounded to the 24-bit q, ties to even
F32RoundUp(sign, q, r, half, e) ==
  IF r > half \/ (r = half /\ q % 2 = 1)
  THEN IF q + 1 = 16777216
       THEN [s |-> sign, e |-> e + 1, m |-> 8388608]
       ELSE [s |-> sign, e |-> e, m |-> q + 1]
  ELSE [s |-> sign, e |-> e, m |-> q]

F32RoundBits(sign, mag, u, L) ==
  IF L <= 24
  THEN [s |-> sign, e |-> u - (24 - L), m |-> mag * Pow2(24 - L)]
  ELSE F32RoundUp(sign, mag \div Pow2(L - 24), mag % Pow2(L - 24),
                  Pow2(L - 25), u + (L - 24))

\* sign * mag * 2^u rounded to 24 significant bits (mag < 2^31)
F32Round(sign, mag, u) ==
  IF mag = 0 \/ sign = 0 THEN F32Zero ELSE F32RoundBits(sign, mag, u, BitLen(mag))

\* `x as f32` for a usize x
F32FromNat(x) == F32Round(1, x, 0)

\* digit-by-digit square root of mm * 2^22, two bits of the radicand per step:
\* scale is 4^i while the pairs of mm last, then `zeros` pairs of zero bits
RECURSIVE SqrtSteps(_, _, _, _, _)
RECURSIVE SqrtStep(_, _, _, _, _)
SqrtSteps(mm, scale, zeros, rem, root) ==
  IF scale = 0 /\ zeros = 0 THEN [root |-> root, rem |-> rem]
  ELSE SqrtStep(mm, scale, zeros, root,
                rem * 4 + (IF scale > 0 THEN (mm \div scale) % 4 ELSE 0))
SqrtStep(mm, scale, zeros, root, r2) ==
  IF r2 >= root * 4 + 1
  THEN SqrtSteps(mm, IF scale > 0 THEN scale \div 4 ELSE 0,
                 IF scale > 0 THEN zeros ELSE zeros - 1,
                 r2 - (root * 4 + 1), root * 2 + 1)
  ELSE SqrtSteps(mm, IF scale > 0 THEN scale \div 4 ELSE 0,
                 IF scale > 0 THEN zeros ELSE zeros - 1,
                 r2, root * 2)

\* the square root of mm * 2^22, as root and remainder, rounded to nearest
F32SqrtRounded(sr, e) ==
  IF sr.rem > sr.root
  THEN IF sr.root + 1 = 16777216
       THEN [s |-> 1, e |-> e + 1, m |-> 8388608]
       ELSE [s |-> 1, e |-> e, m |-> sr.root + 1]
  ELSE [s |-> 1, e |-> e, m |-> sr.root]

\* f32::sqrt of a float >= 0: m * 2^e = (m * 2^t) * 2^(e - t) with e - t even
F32Sqrt(a) ==
  IF a.s = 0 THEN F32Zero
  ELSE IF (a.e - 23) % 2 = 0
  THEN F32SqrtRounded(SqrtSteps(a.m * 2, 16777216, 11, 0, 0), (a.e - 23) \div 2)
  ELSE F32SqrtRounded(SqrtSteps(a.m * 4, 16777216, 11, 0, 0), (a.e - 24) \div 2)

\* big - small for big >= small > 0: big is shifted up by `up` bits, small down by
\* `down` bits with a sticky bit, and the difference is rounded
F32SubAligned(sign, big, small, up, down) ==
  F32Round(sign,
           2 * (big.m * Pow2(up)
                - (IF down >= 24 THEN 0 ELSE small.m \div Pow2(down)))
           - (IF down = 0 THEN 0
              ELSE IF down >= 24 THEN 1
              ELSE IF small.m % Pow2(down) # 0 THEN 1 ELSE 0),
           big.e - up - 1)

F32SubOrdered(sign, big, small) ==
  F32SubAligned(sign, big, small, Min(big.e - small.e, 6),
                (big.e - small.e) - Min(big.e - small.e, 6))

\* a - b for floats a >= 0 and b >= 0
F32Sub(a, b) ==
  IF b.s = 0 THEN a
  ELSE IF a.s = 0 THEN [b EXCEPT !.s = -1]
  ELSE IF a.e > b.e \/ (a.e = b.e /\ a.m >= b.m)
  THEN F32SubOrdered(1, a, b)
  ELSE F32SubOrdered(-1, b, a)

\* f32::total_cmp: -1, 0 or 1 as a is less than, equal to or greater than b
total_cmp(a, b) ==
  LET MagCmp(x, y) == IF x.e # y.e THEN (IF x.e < y.e THEN -1 ELSE 1)
                      ELSE IF x.m # y.m THEN (IF x.m < y.m THEN -1 ELSE 1)
                      ELSE 0
  IN IF a.s # b.s THEN (IF a.s < b.s THEN -1 ELSE 1)
     ELSE IF a.s = 0 THEN 0
     ELSE IF a.s = 1 THEN MagCmp(a, b)
     ELSE MagCmp(b, a)

(***************************************************************************)
(* State.                                                                  *)
(***************************************************************************)
VARIABLES
  frame_size,       \* the device's period: length of every port buffer
  ports,            \* ports[i][c]: input i's captured frame, channel c, this cycle
  inputs,           \* JackState.inputs: [buffer, pausing] per input
  output,           \* output[c]: the output port buffer of channel c
  written_samples,  \* the drain loop's write cursor
  mutex,            \* Mutex<JackState>: [owner, poisoned]
  rt_pc,            \* where the real-time thread is
  hk_pc,            \* where the housekeeping (main) thread is
  ingested,         \* ingested[i]: Samples units pushed to input i so far
  writes,           \* writes[c]: per position, how often this callback wrote it
  popped,           \* what the last drain iteration popped, [input, item]
  received,         \* the last receive_samples call: [requested, num, echo]
  observed,         \* observed[i]: the backlog the last tick read for input i
  issued,           \* issued[i]: the commands the last tick spawned for input i
  evicted,          \* evicted[i]: this callback's ingest dropped input i's lone silence
  trailing,         \* trailing[i]: input i's queue is the lone Silence unit that a
                    \* callback ending in the zero-fill fallback left behind
  call              \* a function applied on its own: [fn, args, ret], or None

\* the state of Multiplexer::run
run_vars == << frame_size, ports, inputs, output, written_samples, mutex, rt_pc,
               hk_pc, ingested, writes, popped, received, observed, issued, evicted,
               trailing >>

vars == << run_vars, call >>

None == [type |-> "None"]

\* BufferItem; id is the unit's ingest number within its input (not in the code)
Samples(samples, id) == [type |-> "Samples", samples |-> samples, id |-> id]
Silence(count) == [type |-> "Silence", count |-> count]

\* content of an output port buffer the callback has not written yet
Stale == 0 - 1

\* the AutoPausing of the second input
SecondInputPausing ==
  [type |-> "AutoPausing", source_paused |-> FALSE,
   pause_threshold |-> pause_threshold, resume_threshold |-> resume_threshold,
   pause_command |-> "playerctl pause", resume_command |-> "playerctl play"]

\* Input::new, and the two inputs Multiplexer::run registers
NewInput == [buffer |-> << >>, pausing |-> None]
InitialInputs == << NewInput, [NewInput EXCEPT !.pausing = SecondInputPausing] >>

InputIds == 1..Len(InitialInputs)
Channels == 1..channel_count

(***************************************************************************)
(* Frames the device layer delivers: a head sample per channel, then a     *)
(* common tail.  Silent frames stay below 0.01 on every sample; the loud   *)
(* frame has one sample of exactly 0.01, which is not silent.              *)
(***************************************************************************)
Slice(n, head, tail) == Norm(<< Run(1, head), Run(n - 1, tail) >>)
FrameOf(n, h) == [c \in Channels |-> Slice(n, h[c], h[3])]

SilentHeads == { <<0, 0, 0>>, <<9, -9, 0>> }
LoudHeads == { <<10, -9, 7>> }

IsSilent(slices) == \A c \in 1..Len(slices) : AllBelowThreshold(slices[c])

(***************************************************************************)
(* Input::buffered_samples and Input::urgency.                             *)
(***************************************************************************)
RECURSIVE SumSamples(_)
SumSamples(buffer) ==
  IF buffer = << >> THEN 0
  ELSE (IF buffer[1].type = "Samples" THEN VLen(buffer[1].samples[1]) ELSE 0)
       + SumSamples(Tail(buffer))

buffered_samples(input) == SumSamples(input.buffer)

\* (self.buffered_samples() as f32).sqrt() - silence_penalty
UrgencyValue(buffered, silence_penalty) ==
  F32Sub(F32Sqrt(F32FromNat(buffered)), silence_penalty)

urgency(input) ==
  LET silence_penalty ==
        IF input.buffer # << >> /\ input.buffer[1].type = "Silence"
        THEN F32FromNat(input.buffer[1].count)
        ELSE F32Zero
  IN UrgencyValue(buffered_samples(input), silence_penalty)

(***************************************************************************)
(* The ingest of one input (process_callback, the body of the first loop). *)
(***************************************************************************)
\* IngestSilent with the None arm folded into the catch-all arm
IngestSilentAppend(buffer, frame) ==
  IF buffer # << >> /\ buffer[Len(buffer)].type = "Silence"
  THEN [buffer EXCEPT ![Len(buffer)] = Silence(Min(MaxSilence, @.count + frame))]
  ELSE Append(buffer, Silence(frame))

IngestSilent(buffer, frame) ==
  IF buffer # << >> /\ buffer[Len(buffer)].type = "Silence"
  THEN [buffer EXCEPT ![Len(buffer)] = Silence(Min(MaxSilence, @.count + frame))]
  ELSE IF buffer = << >>
  THEN buffer
  ELSE Append(buffer, Silence(frame))

\* IngestSamples with push_front in place of push_back
IngestSamplesFront(buffer, slices, id) ==
  LET kept == IF Len(buffer) = 1 /\ buffer[Len(buffer)].type = "Silence"
              THEN Tail(buffer)
              ELSE buffer
  IN << Samples(slices, id) >> \o kept

\* IngestSamples without the buffer.len() == 1 test
IngestSamplesEvictAny(buffer, slices, id) ==
  LET kept == IF buffer # << >> /\ buffer[Len(buffer)].type = "Silence"
              THEN Tail(buffer)
              ELSE buffer
  IN Append(kept, Samples(slices, id))

IngestSamples(buffer, slices, id) ==
  LET kept == IF Len(buffer) = 1 /\ buffer[Len(buffer)].type = "Silence"
              THEN Tail(buffer)
              ELSE buffer
  IN Append(kept, Samples(slices, id))

IngestInput(input, slices, frame, id) ==
  IF IsSilent(slices)
  THEN [input EXCEPT !.buffer = IngestSilent(input.buffer, frame)]
  ELSE [input EXCEPT !.buffer = IngestSamples(input.buffer, slices, id)]

(***************************************************************************)
(* The drain loop of process_callback.                                     *)
(***************************************************************************)
\* sort_by(|a, b| b.urgency().total_cmp(&a.urgency())): stable, descending
\* input i comes before input j: u[i] is greater, or they are equal and i < j
Before(c, i, j) == c < 0 \/ (c = 0 /\ i < j)
\* Precedes for sort_by(|a, b| a.urgency().total_cmp(&b.urgency())): ascending
PrecedesAscending(u, i, j) == Before(total_cmp(u[i], u[j]), i, j)

Precedes(u, i, j) == Before(total_cmp(u[j], u[i]), i, j)

\* the inputs' indices in sorted order, for the urgencies u
SortedBy(u) ==
  [k \in 1..Len(u) |->
     CHOOSE i \in 1..Len(u) :
       Cardinality({j \in 1..Len(u) : Precedes(u, j, i)}) = k - 1]

sorted_inputs(ins) == SortedBy([i \in 1..Len(ins) |-> urgency(ins[i])])

\* .find(|input| input.buffered_samples() > 0): the input's index, 0 for None
FirstOf(so, ks) == IF ks = {} THEN 0 ELSE so[SetMin(ks)]

\* a find that takes the first input whose queue holds any unit
FindInQueued(ins, so) ==
  FirstOf(so, {k \in 1..Len(so) : ins[so[k]].buffer # << >>})

FindIn(ins, so) ==
  FirstOf(so, {k \in 1..Len(so) : buffered_samples(ins[so[k]]) > 0})
FindInput(ins) == FindIn(ins, sorted_inputs(ins))

\* what the engine wrote when it did not hand back the samples it was given
Stretched == 123

\* SoundTouch::receive_samples returns between 0 and max_samples samples
ReceiveCounts(max_samples) ==
  (0..Min(MaxShort, max_samples)) \cup (Max(0, max_samples - MaxShort)..max_samples)

\* the caller's buffer after receive_samples wrote num samples into it
receive_samples(samples, num, echo) ==
  IF echo THEN samples ELSE VCat(VFill(num, Stretched), VDrop(samples, num))

\* Vec::truncate
truncate(v, len) == VTake(v, len)

RECURSIVE IncRuns(_)
IncRuns(w) ==
  IF w = << >> THEN << >> ELSE << Run(w[1].n, w[1].v + 1) >> \o IncRuns(Tail(w))

\* one more write of every position from `from` on
AddWrites(w, from) == VCat(VTake(w, from), IncRuns(VDrop(w, from)))

\* fill(0.0) of every output port
FillOutput(out) == [c \in 1..Len(out) |-> VFill(VLen(out[c]), 0)]
FillWrites(wr) == [c \in 1..Len(wr) |-> AddWrites(wr[c], 0)]

\* zip(output, unmixed).for_each(port[written_samples..].clone_from_slice(..)):
\* clone_from_slice panics when the two lengths differ
RECURSIVE CloneFromSlices(_, _, _, _, _)
CloneFromSlices(out, wr, written, unmixed, c) ==
  IF c > Min(Len(out), Len(unmixed))
  THEN [output |-> out, writes |-> wr, panicked |-> FALSE]
  ELSE IF VLen(unmixed[c]) # VLen(out[c]) - written
  THEN [output |-> out, writes |-> wr, panicked |-> TRUE]
  ELSE CloneFromSlices([out EXCEPT ![c] = VCat(VTake(@, written), unmixed[c])],
                       [wr EXCEPT ![c] = AddWrites(@, written)],
                       written, unmixed, c + 1)

\* the BufferItem::Samples arm, for a receive of num samples
Drained(w, written, num) ==
  [output |-> w.output, writes |-> w.writes, panicked |-> w.panicked,
   written_samples |-> IF w.panicked THEN written ELSE written + num]

Unmix(got, channels) ==
  [index \in 1..channels |-> unmixed_samples(got, index - 1, channels)]

DrainSamples(samples, out, wr, written, num, echo) ==
  Drained(CloneFromSlices(out, wr, written,
                          Unmix(truncate(receive_samples(interleave_all(samples),
                                                         num, echo), num),
                                Len(out)),
                          1),
          written, num)

\* a Silence arm that pushes the remainder back even when nothing remains
DrainSilenceKeepsZero(rest, sample_count, frame) ==
  LET silence_remaining == sample_count - frame
  IN IF silence_remaining >= 0
     THEN << Silence(silence_remaining) >> \o rest
     ELSE rest

\* the BufferItem::Silence arm: the queue after the pop, remainder pushed back
DrainSilence(rest, sample_count, frame) ==
  LET silence_remaining == sample_count - frame
  IN IF silence_remaining > 0
     THEN << Silence(silence_remaining) >> \o rest
     ELSE rest

(***************************************************************************)
(* The auto-pause decision of the housekeeping loop, for one input.        *)
(* spawn_ok: whether Command::spawn succeeds; .unwrap() panics otherwise.  *)
(***************************************************************************)
\* ShouldResume comparing with the pause threshold
ShouldResumeBelowPause(pausing, buffered) ==
  pausing.source_paused /\ buffered < pausing.pause_threshold

\* if pausing.source_paused && buffered_samples < pausing.resume_threshold
ShouldResume(pausing, buffered) ==
  pausing.source_paused /\ buffered < pausing.resume_threshold

\* if !pausing.source_paused && buffered_samples > pausing.pause_threshold
ShouldPause(pausing, buffered) ==
  ~pausing.source_paused /\ buffered > pausing.pause_threshold

\* a pause branch that spawns the command and leaves source_paused as it was
PauseStepKeepFlag(pausing, buffered, spawn_ok, done) ==
  IF ShouldPause(pausing, buffered)
  THEN IF spawn_ok
       THEN [pausing |-> pausing, issued |-> Append(done, "pause"),
             panicked |-> FALSE]
       ELSE [pausing |-> pausing, issued |-> done, panicked |-> TRUE]
  ELSE [pausing |-> pausing, issued |-> done, panicked |-> FALSE]

\* the second if, after a first one that issued the commands `done`
PauseStep(pausing, buffered, spawn_ok, done) ==
  IF ShouldPause(pausing, buffered)
  THEN IF spawn_ok
       THEN [pausing |-> [pausing EXCEPT !.source_paused = TRUE],
             issued |-> Append(done, "pause"), panicked |-> FALSE]
       ELSE [pausing |-> pausing, issued |-> done, panicked |-> TRUE]
  ELSE [pausing |-> pausing, issued |-> done, panicked |-> FALSE]

PausingStep(pausing, buffered, spawn_ok) ==
  IF ShouldResume(pausing, buffered)
  THEN IF spawn_ok
       THEN PauseStep([pausing EXCEPT !.source_paused = FALSE], buffered, spawn_ok,
                      << "resume" >>)
       ELSE [pausing |-> pausing, issued |-> << >>, panicked |-> TRUE]
  ELSE PauseStep(pausing, buffered, spawn_ok, << >>)

\* for input in state.inputs.iter_mut() { ... }, from input i on
RECURSIVE TickInputs(_, _, _, _, _)
RECURSIVE TickInput(_, _, _, _, _, _)
TickInputs(ins, obs, iss, i, spawn_ok) ==
  IF i > Len(ins)
  THEN [inputs |-> ins, observed |-> obs, issued |-> iss, panicked |-> FALSE]
  ELSE IF ins[i].pausing.type = "None"
  THEN TickInputs(ins, [obs EXCEPT ![i] = buffered_samples(ins[i])],
                  [iss EXCEPT ![i] = << >>], i + 1, spawn_ok)
  ELSE TickInput(ins, [obs EXCEPT ![i] = buffered_samples(ins[i])], iss, i, spawn_ok,
                 PausingStep(ins[i].pausing, buffered_samples(ins[i]), spawn_ok))

\* input i's decision st is applied; a failed spawn ends the loop
TickInput(ins, obs, iss, i, spawn_ok, st) ==
  IF st.panicked
  THEN [inputs |-> [ins EXCEPT ![i].pausing = st.pausing], observed |-> obs,
        issued |-> [iss EXCEPT ![i] = st.issued], panicked |-> TRUE]
  ELSE TickInputs([ins EXCEPT ![i].pausing = st.pausing], obs,
                  [iss EXCEPT ![i] = st.issued], i + 1, spawn_ok)

(***************************************************************************)
(* The mutex and the two threads.                                          *)
(*   rt_pc: "idle" (between callbacks), "lock" (in jack_state.lock()),     *)
(*          "ingest", "drain", "return" (holding the guard), "panicked"    *)
(*          (the callback unwound), "aborted" (the panic ended the         *)
(*          process: it cannot unwind out of the C callback).              *)
(*   hk_pc: "lock", "tick" (holding the guard), "sleep", "panicked" (the   *)
(*          main thread is unwinding), "exited".                           *)
(***************************************************************************)
\* MutexFree for a lock() that does not wait for the owner
MutexFreeAlways(m) == m.owner \in {"none", "rt", "hk"}

\* lock() returns only once no thread owns the mutex
MutexFree(m) == m.owner = "none"

\* dropping the guard; a guard dropped while panicking poisons the mutex
Unlock(m, panicking) ==
  [owner |-> "none", poisoned |-> m.poisoned \/ panicking]

\* what a panic inside the callback can do to the process
PanicOutcomes == {"aborted", "unwound"}

Alive == rt_pc # "aborted" /\ hk_pc # "exited"

RtPanic(how, holding) ==
  /\ rt_pc' = IF how = "aborted" THEN "aborted" ELSE "panicked"
  /\ mutex' = IF how = "unwound" /\ holding THEN Unlock(mutex, TRUE) ELSE mutex

\* the state when activate_async returns
Started ==
  /\ frame_size \in FrameSizes
  /\ ports = << >>
  /\ inputs = InitialInputs
  /\ output = [c \in Channels |-> VFill(frame_size, Stale)]
  /\ written_samples = 0
  /\ mutex = [owner |-> "none", poisoned |-> FALSE]
  /\ rt_pc = "idle"
  /\ hk_pc = "lock"
  /\ ingested = [i \in InputIds |-> 0]
  /\ writes = [c \in Channels |-> VFill(frame_size, 0)]
  /\ popped = None
  /\ received = None
  /\ observed = [i \in InputIds |-> 0]
  /\ issued = [i \in InputIds |-> << >>]
  /\ evicted = [i \in InputIds |-> FALSE]
  /\ trailing = [i \in InputIds |-> FALSE]

Init == Started /\ call = None

\* the device layer starts a cycle: it fills the input ports and calls the callback
\* (loud: the inputs whose frame may be non-silent in this cycle)
RtInvokeFrom(loud) ==
  /\ Alive /\ rt_pc = "idle"
  /\ \E h \in [InputIds -> SilentHeads \cup LoudHeads] :
       /\ \A i \in InputIds : h[i] \in LoudHeads => i \in loud
       /\ ports' = [i \in InputIds |-> FrameOf(frame_size, h[i])]
  /\ rt_pc' = "lock"
  /\ UNCHANGED << call, frame_size, inputs, output, written_samples, mutex, hk_pc,
                  ingested, writes, popped, received, observed, issued, evicted,
                  trailing >>

RtInvoke == RtInvokeFrom({i \in InputIds : ingested[i] < MaxIngest})

\* let mut state = jack_state.lock().unwrap();
RtLock ==
  /\ Alive /\ rt_pc = "lock" /\ MutexFree(mutex)
  /\ IF mutex.poisoned
     THEN \E how \in PanicOutcomes : RtPanic(how, FALSE)
     ELSE /\ mutex' = [mutex EXCEPT !.owner = "rt"]
          /\ rt_pc' = "ingest"
  /\ UNCHANGED << call, frame_size, ports, inputs, output, written_samples, hk_pc,
                  ingested, writes, popped, received, observed, issued, evicted,
                  trailing >>

\* for input in state.inputs.iter_mut() { ... }; let mut written_samples = 0;
\* (number[i]: the ingest number a Samples unit of input i gets)
RtIngestNumbered(number) ==
  /\ Alive /\ rt_pc = "ingest"
  /\ LET frame == VLen(ports[1][1]) IN
       /\ inputs' = [i \in InputIds |->
                       IngestInput(inputs[i], ports[i], frame, number[i])]
       /\ ingested' = [i \in InputIds |->
                         IF IsSilent(ports[i]) THEN ingested[i] ELSE number[i]]
       /\ written_samples' = 0
       /\ rt_pc' = IF 0 < frame THEN "drain" ELSE "return"
  /\ evicted' = [i \in InputIds |->
                    /\ ~IsSilent(ports[i])
                    /\ Len(inputs'[i].buffer) < Len(inputs[i].buffer) + 1]
  /\ trailing' = [i \in InputIds |-> trailing[i] /\ IsSilent(ports[i])]
  /\ UNCHANGED << call, frame_size, ports, output, mutex, hk_pc, writes, popped,
                  received, observed, issued >>

RtIngest == RtIngestNumbered([i \in InputIds |-> ingested[i] + 1])

\* a queue that holds one Silence unit and nothing else
IsLoneSilence(buffer) == Len(buffer) = 1 /\ buffer[1].type = "Silence"

\* None => { fill(0.0) of every output port; return Control::Continue }
RtDrainNone ==
  /\ output' = FillOutput(output)
  /\ writes' = FillWrites(writes)
  /\ rt_pc' = "return"
  /\ popped' = None
  /\ trailing' = [i \in InputIds |-> IsLoneSilence(inputs[i].buffer)]
  /\ UNCHANGED << inputs, written_samples, mutex, received >>

\* BufferItem::Samples(samples): d is what DrainSamples made of the receive
RtDrainedSamples(i, rest, d, requested, num, echo, frame) ==
  /\ inputs' = [inputs EXCEPT ![i].buffer = rest]
  /\ received' = [type |-> "Received", requested |-> requested, num |-> num,
                  echo |-> echo]
  /\ output' = d.output
  /\ writes' = d.writes
  /\ written_samples' = d.written_samples
  /\ IF d.panicked
     THEN \E how \in PanicOutcomes : RtPanic(how, TRUE)
     ELSE /\ rt_pc' = IF d.written_samples < frame THEN "drain" ELSE "return"
          /\ mutex' = mutex

RtDrainSamples(i, item, rest, requested, frame) ==
  \E num \in ReceiveCounts(requested), echo \in BOOLEAN :
    RtDrainedSamples(i, rest,
                     DrainSamples(item.samples, output, writes, written_samples,
                                  num, echo),
                     requested, num, echo, frame)

\* BufferItem::Silence(sample_count)
RtDrainSilence(i, item, rest) ==
  /\ inputs' = [inputs EXCEPT ![i].buffer =
                  DrainSilence(rest, item.count, VLen(ports[i][1]))]
  /\ output' = FillOutput(output)
  /\ writes' = FillWrites(writes)
  /\ rt_pc' = "drain"
  /\ UNCHANGED << written_samples, mutex, received >>

\* let buffer_item = input.buffer.pop_front().unwrap(); match buffer_item { ... }
RtDrainItem(i, item, rest, frame) ==
  /\ popped' = [type |-> "Popped", input |-> i, item |-> item]
  /\ trailing' = trailing
  /\ IF item.type = "Samples"
     THEN RtDrainSamples(i, item, rest, (frame - written_samples) * Len(output), frame)
     ELSE RtDrainSilence(i, item, rest)

RtDrainInput(i, frame) ==
  IF i = 0
  THEN RtDrainNone
  ELSE RtDrainItem(i, Head(inputs[i].buffer), Tail(inputs[i].buffer), frame)

\* one iteration of while written_samples < frame_size { ... }
RtDrain ==
  /\ Alive /\ rt_pc = "drain"
  /\ RtDrainInput(FindInput(inputs), VLen(ports[1][1]))
  /\ UNCHANGED << call, frame_size, ports, hk_pc, ingested, observed, issued, evicted >>

\* Control::Continue: the guard is dropped, the cycle ends and the port
\* buffers go back to the device layer
RtReturn ==
  /\ Alive /\ rt_pc = "return"
  /\ mutex' = Unlock(mutex, FALSE)
  /\ rt_pc' = "idle"
  /\ ports' = << >>
  /\ output' = [c \in Channels |-> VFill(frame_size, Stale)]
  /\ writes' = [c \in Channels |-> VFill(frame_size, 0)]
  /\ written_samples' = 0
  /\ popped' = None
  /\ received' = None
  /\ evicted' = [i \in InputIds |-> FALSE]
  /\ UNCHANGED << call, frame_size, inputs, hk_pc, ingested, observed, issued,
                  trailing >>

\* let mut state = self.jack_state.lock().unwrap();
HkLock ==
  /\ Alive /\ hk_pc = "lock" /\ MutexFree(mutex)
  /\ IF mutex.poisoned
     THEN hk_pc' = "panicked" /\ mutex' = mutex
     ELSE hk_pc' = "tick" /\ mutex' = [mutex EXCEPT !.owner = "hk"]
  /\ UNCHANGED << call, frame_size, ports, inputs, output, written_samples, rt_pc,
                  ingested, writes, popped, received, observed, issued, evicted,
                  trailing >>

\* the state after the loop over the inputs came to t
HkTicked(t) ==
  /\ inputs' = t.inputs
  /\ observed' = t.observed
  /\ issued' = t.issued
  /\ mutex' = Unlock(mutex, t.panicked)
  /\ hk_pc' = IF t.panicked THEN "panicked" ELSE "sleep"

\* the body of the block: every input is examined, then the guard is dropped
HkTick ==
  /\ Alive /\ hk_pc = "tick"
  /\ \E spawn_ok \in BOOLEAN :
       HkTicked(TickInputs(inputs, observed, issued, 1, spawn_ok))
  /\ UNCHANGED << call, frame_size, ports, output, written_samples, rt_pc, ingested,
                  writes, popped, received, evicted, trailing >>

\* std::thread::sleep(100 ms), then the loop starts over
HkSleep ==
  /\ Alive /\ hk_pc = "sleep"
  /\ hk_pc' = "lock"
  /\ observed' = [i \in InputIds |-> 0]
  /\ issued' = [i \in InputIds |-> << >>]
  /\ UNCHANGED << call, frame_size, ports, inputs, output, written_samples, mutex,
                  rt_pc, ingested, writes, popped, received, evicted, trailing >>

\* the main thread's panic ends the process once the client is deactivated
MainExit ==
  /\ Alive /\ hk_pc = "panicked" /\ rt_pc \in {"idle", "panicked"}
  /\ hk_pc' = "exited"
  /\ UNCHANGED << call, frame_size, ports, inputs, output, written_samples, mutex,
                  rt_pc, ingested, writes, popped, received, observed, issued, evicted,
                  trailing >>

Next ==
  \/ RtInvoke
  \/ RtLock
  \/ RtIngest
  \/ RtDrain
  \/ RtReturn
  \/ HkLock
  \/ HkTick
  \/ HkSleep
  \/ MainExit

Spec == Init /\ [][Next]_vars

(***************************************************************************)
(* The program running for ever: the Samples units are not numbered and an *)
(* input takes a non-silent frame in whenever its queue holds fewer than   *)
(* MaxQueue units.  The device layer calls the callback every period and   *)
(* both threads keep running until they panic.                             *)
(***************************************************************************)
MaxQueue == 2

RtInvokeLive == RtInvokeFrom({i \in InputIds : Len(inputs[i].buffer) < MaxQueue})

RtIngestLive == RtIngestNumbered(ingested)

HkStep ==
  \/ HkLock
  \/ HkTick
  \/ HkSleep

NextLive ==
  \/ RtInvokeLive
  \/ RtLock
  \/ RtIngestLive
  \/ RtDrain
  \/ RtReturn
  \/ HkLock
  \/ HkTick
  \/ HkSleep
  \/ MainExit

\* WF_vars(RtDrain) written out: an iteration of the drain loop can be taken
\* exactly when the callback is in the loop
RtDrainFair ==
  \/ []<>~(Alive /\ rt_pc = "drain")
  \/ []<><<RtDrain>>_vars

\* the callback, once called, runs on: each of its steps is taken when it stays
\* possible, and the device layer keeps calling it
RtFair ==
  /\ WF_vars(RtInvokeLive)
  /\ WF_vars(RtLock)
  /\ WF_vars(RtIngestLive)
  /\ RtDrainFair
  /\ WF_vars(RtReturn)

LiveSpec ==
  Init /\ [][NextLive]_vars /\ RtFair /\ WF_vars(HkStep)

(***************************************************************************)
(* Functions applied on their own, to arguments drawn from bounded sets.   *)
(***************************************************************************)
\* most sequences interleaved, and the greatest length of each
MaxK == 3
MaxLen == 3

\* the amplitudes the sequences are made of
SampleValues == {0, 7}

\* the Vec<f32> holding the samples of the plain sequence s
Encode(s) == Norm([k \in 1..Len(s) |-> Run(1, s[k])])

\* element i of a vector, counted from 0
RECURSIVE VAt(_, _)
VAt(r, i) == IF i < r[1].n THEN r[1].v ELSE VAt(Tail(r), i - r[1].n)

Call(fn, args) == [type |-> "Call", fn |-> fn, args |-> args, ret |-> None]

\* K sequences of N samples each
EqualLengthVecs(K, N) ==
  { [c \in 1..K |-> Encode(a[c])] : a \in [1..K -> [1..N -> SampleValues]] }

InterleaveCalls ==
  { Call("interleave_all", a) :
      a \in UNION { EqualLengthVecs(K, N) : K \in 1..MaxK, N \in 0..MaxLen } }

\* let mixed: Vec<f32> = interleave_all(samples).collect(), then the
\* (0..channels).map(..) of the drain loop with channels = samples.len()
MixAndUnmix(mixed, channels) ==
  [type |-> "Mixed", mixed |-> mixed, unmixed |-> Unmix(mixed, channels)]

ApplyInterleave ==
  /\ call.type = "Call" /\ call.fn = "interleave_all" /\ call.ret = None
  /\ call' = [call EXCEPT !.ret = MixAndUnmix(interleave_all(call.args),
                                              Len(call.args))]
  /\ UNCHANGED run_vars

\* backlogs of two inputs (whole frames of 16 samples) and the count of the
\* Silence unit at the front of both queues (0: no Silence unit at the front)
Backlogs ==
  {0, 16, 2400, 4800, 16384, 49152, 16777216, 16777232, 268435456, 268435472}
Penalties == {0, 16, 2400, 4800}

UrgencyCalls ==
  { Call("urgency", [buffered |-> << a, b >>, penalty |-> p]) :
      a \in Backlogs, b \in Backlogs, p \in Penalties }

\* the urgencies of the two inputs and the order sort_by leaves them in
Urgencies(u) == [type |-> "Urgencies", u |-> u, order |-> SortedBy(u)]

ApplyUrgency ==
  /\ call.type = "Call" /\ call.fn = "urgency" /\ call.ret = None
  /\ call' = [call EXCEPT !.ret =
                Urgencies([i \in 1..2 |->
                             UrgencyValue(call.args.buffered[i],
                                          F32FromNat(call.args.penalty))])]
  /\ UNCHANGED run_vars

PureCalls == InterleaveCalls \cup UrgencyCalls

InitPure == Started /\ call \in PureCalls

PureNext ==
  \/ ApplyInterleave
  \/ ApplyUrgency

PureSpec == InitPure /\ [][PureNext]_vars

(***************************************************************************)
(* Properties.                                                             *)
(***************************************************************************)

\* C1 Output frame completeness: when a callback ends, whatever the receive
\* returned, every position of every output channel was written exactly once.
OutputFrameComplete ==
  (rt_pc = "return" \/ (rt_pc \in {"panicked", "aborted"} /\ received.type = "Received"))
    => \A c \in Channels : writes[c] = VFill(frame_size, 1)

\* C2 A receive of at most the requested number of samples, zero included, never
\* takes the callback that drains the Samples unit to a panic or an abort.
ShortReceiveTolerated ==
  (received.type = "Received" /\ received.num <= received.requested)
    => rt_pc \notin {"panicked", "aborted"}

\* C3 FIFO preservation: within one input's queue the Samples units stand in the
\* order of their ingest and every unit still queued was ingested after the
\* Samples unit popped last; a drain iteration that changes the queues pops the
\* head of one queue, puts at most a silence remainder back in its place and
\* leaves the other queues alone; an ingest changes a queue only behind the
\* units it holds.
FifoPreserved ==
  /\ [](\A i \in InputIds : \A k, l \in 1..Len(inputs[i].buffer) :
          (/\ k < l
           /\ inputs[i].buffer[k].type = "Samples"
           /\ inputs[i].buffer[l].type = "Samples")
            => inputs[i].buffer[k].id < inputs[i].buffer[l].id)
  /\ []((popped.type = "Popped" /\ popped.item.type = "Samples")
          => \A k \in 1..Len(inputs[popped.input].buffer) :
               inputs[popped.input].buffer[k].type = "Samples"
                 => popped.item.id < inputs[popped.input].buffer[k].id)
  /\ [][(rt_pc = "drain" /\ inputs' # inputs)
          => /\ popped'.type = "Popped"
             /\ inputs[popped'.input].buffer # << >>
             /\ popped'.item = Head(inputs[popped'.input].buffer)
             /\ \/ inputs'[popped'.input].buffer = Tail(inputs[popped'.input].buffer)
                \/ /\ popped'.item.type = "Silence"
                   /\ inputs'[popped'.input].buffer # << >>
                   /\ Head(inputs'[popped'.input].buffer).type = "Silence"
                   /\ Head(inputs'[popped'.input].buffer).count < popped'.item.count
                   /\ Tail(inputs'[popped'.input].buffer)
                        = Tail(inputs[popped'.input].buffer)
             /\ \A j \in InputIds \ {popped'.input} : inputs'[j] = inputs[j]]_vars
  /\ [][(rt_pc = "ingest" /\ rt_pc' # "ingest")
          => \A i \in InputIds :
               \/ inputs'[i].buffer = inputs[i].buffer
               \/ /\ Len(inputs'[i].buffer) = Len(inputs[i].buffer) + 1
                  /\ SubSeq(inputs'[i].buffer, 1, Len(inputs[i].buffer)) = inputs[i].buffer
               \/ /\ Len(inputs'[i].buffer) = Len(inputs[i].buffer)
                  /\ inputs[i].buffer[Len(inputs[i].buffer)].type = "Silence"
                  /\ inputs'[i].buffer[Len(inputs[i].buffer)].type
                       = IF Len(inputs[i].buffer) = 1
                         THEN inputs'[i].buffer[1].type
                         ELSE "Silence"
                  /\ SubSeq(inputs'[i].buffer, 1, Len(inputs[i].buffer) - 1)
                       = SubSeq(inputs[i].buffer, 1, Len(inputs[i].buffer) - 1)]_vars

\* a Samples unit ingested second or later was popped while a unit ingested
\* after it waits in the same queue
FifoPreservedWitness ==
  /\ popped.type = "Popped" /\ popped.item.type = "Samples"
  /\ popped.item.id >= 2
  /\ \E k \in 1..Len(inputs[popped.input].buffer) :
       inputs[popped.input].buffer[k].type = "Samples"

\* C4 Silence cap: every Silence unit held in any queue counts at most 4800
\* samples, whichever frame size the device delivers.
SilenceCapped ==
  \A i \in InputIds : \A k \in 1..Len(inputs[i].buffer) :
    inputs[i].buffer[k].type = "Silence" => inputs[i].buffer[k].count <= 4800

\* C5 Hysteresis: a tick that finds the input paused and a backlog of at least
\* resume_threshold spawns nothing and leaves it paused; a tick that finds it
\* playing and a backlog of at most pause_threshold spawns nothing and leaves it
\* playing; a backlog of 5000 found while paused leaves it paused.
Hysteresis ==
  [][/\ (hk_pc = "tick" /\ hk_pc' # "tick")
          => \A i \in InputIds : inputs[i].pausing.type = "AutoPausing" =>
               /\ (/\ inputs[i].pausing.source_paused
                   /\ buffered_samples(inputs[i]) >= 4800)
                    => (issued'[i] = << >> /\ inputs'[i].pausing.source_paused)
               /\ (/\ ~inputs[i].pausing.source_paused
                   /\ buffered_samples(inputs[i]) <= 48000)
                    => (issued'[i] = << >> /\ ~inputs'[i].pausing.source_paused)
     /\ PausingStep([SecondInputPausing EXCEPT !.source_paused = TRUE], 5000, TRUE)
          = [pausing |-> [SecondInputPausing EXCEPT !.source_paused = TRUE],
             issued |-> << >>, panicked |-> FALSE]]_vars

\* a tick found the paused input with a backlog between the two thresholds and
\* left it paused
HysteresisWitness ==
  /\ hk_pc = "sleep"
  /\ inputs[2].pausing.source_paused
  /\ observed[2] >= 4800 /\ observed[2] <= 48000
  /\ issued[2] = << >>

\* C6 Mutual exclusion: a housekeeping tick runs only while the callback is
\* between two callbacks or waiting for the lock, and the callback's ingest and
\* drain run only while no tick is running; whoever runs owns the mutex.
MutualExclusion ==
  /\ hk_pc = "tick" => (rt_pc \in {"idle", "lock"} /\ mutex.owner = "hk")
  /\ rt_pc \in {"ingest", "drain", "return"} => (hk_pc # "tick" /\ mutex.owner = "rt")

\* the callback waits for the lock while a tick holds it over a backlog
MutualExclusionWitness ==
  /\ hk_pc = "tick" /\ rt_pc = "lock"
  /\ \E i \in InputIds : inputs[i].buffer # << >>

\* C7 Neither thread blocks on the other for ever: every attempt of either
\* thread to take the lock that comes to an end has taken the lock.
LockAttemptsSucceed ==
  [][/\ (hk_pc = "lock" /\ hk_pc' # "lock") => hk_pc' = "tick"
     /\ (rt_pc = "lock" /\ rt_pc' # "lock") => rt_pc' = "ingest"]_vars

\* C8 Pending-silence eviction: the ingest of a non-silent frame into a queue
\* that holds one Silence unit and nothing else leaves the queue holding the
\* frame's Samples unit and nothing else; into a queue that holds a Silence unit
\* behind another unit, it appends the Samples unit and changes nothing else.
PendingSilenceEvicted ==
  [][(rt_pc = "ingest" /\ rt_pc' # "ingest")
       => \A i \in InputIds :
            (\E c \in Channels : \E k \in 1..Len(ports[i][c]) :
               ports[i][c][k].v >= 10 \/ ports[i][c][k].v <= 0 - 10)
            => /\ (Len(inputs[i].buffer) = 1 /\ inputs[i].buffer[1].type = "Silence")
                    => /\ Len(inputs'[i].buffer) = 1
                       /\ inputs'[i].buffer[1].type = "Samples"
                       /\ inputs'[i].buffer[1].samples = ports[i]
               /\ (\E k \in 2..Len(inputs[i].buffer) : inputs[i].buffer[k].type = "Silence")
                    => /\ Len(inputs'[i].buffer) = Len(inputs[i].buffer) + 1
                       /\ SubSeq(inputs'[i].buffer, 1, Len(inputs[i].buffer))
                            = inputs[i].buffer
                       /\ inputs'[i].buffer[Len(inputs'[i].buffer)].type = "Samples"
                       /\ inputs'[i].buffer[Len(inputs'[i].buffer)].samples = ports[i]]_vars

\* one input's lone Silence unit was just replaced by the frame's Samples unit,
\* and another input's frame was just appended behind a Silence unit
PendingSilenceEvictedWitness ==
  /\ rt_pc = "drain" /\ popped.type = "None"
  /\ \E i, j \in InputIds :
       /\ evicted[i]
       /\ inputs[i].buffer = << Samples(ports[i], ingested[i]) >>
       /\ Len(inputs[j].buffer) >= 3
       /\ inputs[j].buffer[Len(inputs[j].buffer) - 1].type = "Silence"
       /\ inputs[j].buffer[Len(inputs[j].buffer)] = Samples(ports[j], ingested[j])

\* C9 No phantom silence: the ingest of a silent frame (every sample of every
\* channel below 0.01 in absolute value) into an empty queue leaves it empty.
NoPhantomSilence ==
  [][(rt_pc = "ingest" /\ rt_pc' # "ingest")
       => \A i \in InputIds :
            (/\ inputs[i].buffer = << >>
             /\ \A c \in Channels : \A k \in 1..Len(ports[i][c]) :
                  ports[i][c][k].v < 10 /\ ports[i][c][k].v > 0 - 10)
            => inputs'[i].buffer = << >>]_vars

\* a silent frame that is not all zeros was just ingested into a queue that is
\* empty, in a callback that follows an earlier one
NoPhantomSilenceWitness ==
  /\ rt_pc = "drain" /\ popped.type = "None"
  /\ \E i \in InputIds :
       /\ inputs[i].buffer = << >>
       /\ IsSilent(ports[i])
       /\ ports[i][1] # VFill(frame_size, 0)
       /\ \E j \in InputIds : ingested[j] >= 2

\* C10 Pass-through: when one input holds a single Samples unit of frame_size
\* samples on each channel, the other inputs hold nothing and the receive gives
\* back exactly the samples put in, the drain iteration leaves every output
\* channel equal to the unit's channel and the queue empty, and ends the loop.
PassThrough ==
  [][(/\ rt_pc = "drain"
      /\ received.type = "None"
      /\ received'.type = "Received"
      /\ received'.echo
      /\ received'.num = received'.requested)
       => \A i \in InputIds :
            (/\ Len(inputs[i].buffer) = 1
             /\ inputs[i].buffer[1].type = "Samples"
             /\ \A c \in Channels : VLen(inputs[i].buffer[1].samples[c]) = frame_size
             /\ \A j \in InputIds \ {i} : inputs[j].buffer = << >>)
            => /\ \A c \in Channels : output'[c] = inputs[i].buffer[1].samples[c]
               /\ inputs'[i].buffer = << >>
               /\ rt_pc' = "return"]_vars

\* the callback is about to return after such a receive: the queues are empty
\* and the two output channels carry the unit's two different channels
PassThroughWitness ==
  /\ rt_pc = "return"
  /\ received.type = "Received" /\ received.echo
  /\ received.num = received.requested
  /\ popped.type = "Popped" /\ popped.item.type = "Samples"
  /\ \A c \in Channels : output[c] = popped.item.samples[c]
  /\ output[1] # output[2]
  /\ \A i \in InputIds : inputs[i].buffer = << >>

\* C11 Interleave round trip: for K >= 1 sequences of N samples each,
\* interleave_all yields K * N samples, sample i being sample (i div K) of
\* sequence (i mod K), and skip(c).step_by(K) gives back sequence c for every c.
InterleaveRoundTrip ==
  (call.type = "Call" /\ call.fn = "interleave_all" /\ call.ret.type = "Mixed")
    => /\ VLen(call.ret.mixed) = Len(call.args) * VLen(call.args[1])
       /\ \A i \in 0..(VLen(call.ret.mixed) - 1) :
            VAt(call.ret.mixed, i)
              = VAt(call.args[(i % Len(call.args)) + 1], i \div Len(call.args))
       /\ \A c \in 1..Len(call.args) : call.ret.unmixed[c] = call.args[c]

\* three different sequences of three samples were interleaved and taken apart
InterleaveRoundTripWitness ==
  /\ call.type = "Call" /\ call.fn = "interleave_all" /\ call.ret.type = "Mixed"
  /\ Len(call.args) = 3 /\ VLen(call.args[1]) = 3
  /\ Cardinality({call.args[c] : c \in 1..3}) = 3
  /\ VLen(call.ret.mixed) = 9

\* C12 Urgency monotonicity: of two inputs with the same silence penalty, the one
\* with strictly more buffered samples has the strictly higher urgency, and the
\* sort of the drain loop places it first.
UrgencyMonotone ==
  (call.type = "Call" /\ call.fn = "urgency" /\ call.ret.type = "Urgencies")
    => /\ call.args.buffered[1] < call.args.buffered[2]
            => (/\ total_cmp(call.ret.u[1], call.ret.u[2]) < 0
                /\ call.ret.order = << 2, 1 >>)
       /\ call.args.buffered[1] > call.args.buffered[2]
            => (/\ total_cmp(call.ret.u[1], call.ret.u[2]) > 0
                /\ call.ret.order = << 1, 2 >>)

\* C14 Draining a Silence unit of L samples at write cursor w consumes
\* c = min(L, frame_size - w) samples: it sets only the output positions
\* w..w+c to zero, advances written_samples by c and puts Silence(L - c) back at
\* the front of the same queue exactly when L > c.
SilenceDrainConsumes ==
  [][(/\ rt_pc = "drain"
      /\ inputs' # inputs
      /\ popped'.type = "Popped"
      /\ popped'.item.type = "Silence")
       => LET L == popped'.item.count
              w == written_samples
              c == Min(popped'.item.count, frame_size - written_samples)
              queue == inputs[popped'.input].buffer
          IN /\ written_samples' = w + c
             /\ \A ch \in Channels :
                  output'[ch] = VCat(VCat(VTake(output[ch], w), VFill(c, 0)),
                                     VDrop(output[ch], w + c))
             /\ inputs'[popped'.input].buffer
                  = IF L > c THEN << Silence(L - c) >> \o Tail(queue) ELSE Tail(queue)]_vars

\* C15 Write cursor accounting: written_samples never exceeds frame_size, and
\* once a Samples unit has been drained it equals the number of positions of
\* each output channel that were written: the received count divided by the
\* number of channels.
WriteCursorAccounts ==
  /\ written_samples <= frame_size
  /\ (rt_pc \in {"drain", "return"} /\ received.type = "Received")
       => /\ written_samples = received.num \div Len(output)
          /\ \A c \in Channels :
               VLen(VTake(writes[c], written_samples)) = written_samples
                 /\ \A k \in 1..Len(VTake(writes[c], written_samples)) :
                      VTake(writes[c], written_samples)[k].v >= 1

\* C16 Selection rule: the input a drain iteration pops from has buffered samples
\* and its urgency is at least that of every other input with buffered samples,
\* the earlier input winning among equals; an input holding only Silence units
\* is never popped, and the loop falls back to zeros only when no input has
\* buffered samples.
SelectionRule ==
  [][/\ (rt_pc = "drain" /\ inputs' # inputs)
          => /\ popped'.type = "Popped"
             /\ \E k \in 1..Len(inputs[popped'.input].buffer) :
                  inputs[popped'.input].buffer[k].type = "Samples"
             /\ LET u == [j \in InputIds |-> urgency(inputs[j])]
                IN \A j \in InputIds \ {popped'.input} :
                     buffered_samples(inputs[j]) > 0
                       => \/ total_cmp(u[popped'.input], u[j]) > 0
                          \/ /\ total_cmp(u[popped'.input], u[j]) = 0
                             /\ popped'.input < j
     /\ (rt_pc = "drain" /\ rt_pc' = "return" /\ popped'.type = "None")
          => \A j \in InputIds : buffered_samples(inputs[j]) = 0]_vars

\* the second input's Samples unit was popped while the first input, earlier in
\* the startup order, holds buffered samples too
SelectionRuleWitness ==
  /\ rt_pc = "return"
  /\ popped.type = "Popped" /\ popped.input = 2 /\ popped.item.type = "Samples"
  /\ buffered_samples(inputs[1]) > 0

\* C17 Drain-loop termination: whatever the receives return, the drain loop of a
\* callback comes to its end by returning, never by a panic, and at that end
\* either every output position has been written or no input has buffered
\* samples; and each iteration that continues the loop has made the queues
\* shorter or a Silence unit smaller.
DrainLoopEnds ==
  /\ []((rt_pc \in {"return", "panicked", "aborted"} /\ popped.type = "Popped")
          => /\ rt_pc = "return"
             /\ \/ \A c \in Channels : \A k \in 1..Len(writes[c]) : writes[c][k].v >= 1
                \/ \A i \in InputIds : buffered_samples(inputs[i]) = 0)
  /\ [][(rt_pc = "drain" /\ rt_pc' = "drain" /\ inputs' # inputs)
          => \E i \in InputIds :
               /\ \A j \in InputIds \ {i} : inputs'[j] = inputs[j]
               /\ \/ Len(inputs'[i].buffer) < Len(inputs[i].buffer)
                  \/ /\ Len(inputs'[i].buffer) = Len(inputs[i].buffer)
                     /\ inputs'[i].buffer[1].type = "Silence"
                     /\ inputs[i].buffer[1].type = "Silence"
                     /\ inputs'[i].buffer[1].count < inputs[i].buffer[1].count
                     /\ Tail(inputs'[i].buffer) = Tail(inputs[i].buffer)]_vars

\* C18 No starvation: when the callbacks keep coming and every receive gives back
\* what was put in, an input that holds buffered samples gets a Samples unit
\* popped sooner or later, whatever the other inputs hold.
NoStarvation ==
  (/\ []<>(rt_pc = "return")
   /\ [](received.type = "Received"
           => (received.echo /\ received.num = received.requested)))
    => \A i \in InputIds :
         (buffered_samples(inputs[i]) > 0)
           ~> (popped.type = "Popped" /\ popped.input = i
                 /\ popped.item.type = "Samples")

\* C19 Pause and resume alternate: the input starts playing; a tick issues for a
\* pausable input nothing, one pause or one resume, never both; a pause is issued
\* only while source_paused is false and makes it true, a resume only while it is
\* true and makes it false, and nothing else changes source_paused: the commands
\* form pause, resume, pause, ... and source_paused tells which one was last.
PauseResumeAlternate ==
  /\ \A i \in InputIds : inputs[i].pausing.type = "AutoPausing" =>
       (~inputs[i].pausing.source_paused /\ issued[i] = << >>)
  /\ [][\A i \in InputIds : inputs[i].pausing.type = "AutoPausing" =>
          /\ inputs'[i].pausing.type = "AutoPausing"
          /\ IF hk_pc = "tick" /\ hk_pc' # "tick"
             THEN /\ issued'[i] \in {<< >>, << "pause" >>, << "resume" >>}
                  /\ issued'[i] = << "pause" >>
                       => (/\ ~inputs[i].pausing.source_paused
                           /\ inputs'[i].pausing.source_paused)
                  /\ issued'[i] = << "resume" >>
                       => (/\ inputs[i].pausing.source_paused
                           /\ ~inputs'[i].pausing.source_paused)
                  /\ issued'[i] = << >>
                       => (inputs'[i].pausing.source_paused
                             = inputs[i].pausing.source_paused)
             ELSE /\ inputs'[i].pausing = inputs[i].pausing
                  /\ issued'[i] \in {issued[i], << >>}]_vars

\* a tick issued a resume: the input had been paused by an earlier tick
PauseResumeAlternateWitness ==
  /\ hk_pc = "sleep"
  /\ issued[2] = << "resume" >>
  /\ ~inputs[2].pausing.source_paused

\* a queue without two Silence units in a row, every Silence unit of length >= 1
WellShaped(buffer) ==
  /\ \A k \in 1..Len(buffer) :
       buffer[k].type = "Silence" => buffer[k].count >= 1
  /\ \A k \in 1..(Len(buffer) - 1) :
       ~(buffer[k].type = "Silence" /\ buffer[k + 1].type = "Silence")

\* a Silence unit was put on the back of a queue that ended with a Samples unit
AppendedSilence(before, after) ==
  /\ Len(before) >= 1
  /\ before[Len(before)].type = "Samples"
  /\ after[Len(after)].type = "Silence"
  /\ SubSeq(after, 1, Len(before)) = before

\* the front unit is gone, or a shorter Silence unit stands where a Silence
\* unit was
PoppedOrRequeued(before, after) ==
  \/ after = Tail(before)
  \/ /\ Head(before).type = "Silence"
     /\ Len(after) = Len(before)
     /\ Head(after).type = "Silence"
     /\ Head(after).count >= 1
     /\ Head(after).count < Head(before).count
     /\ Tail(after) = Tail(before)

\* C20 Queue shape: in every reachable state (the callback boundaries among
\* them) no queue holds two Silence units in a row and every Silence unit has
\* length >= 1; an ingest that makes a queue longer by a Silence unit puts it
\* right after a Samples unit; a drain iteration changes one queue only, by
\* taking its front unit off or by putting a shorter Silence unit in the place
\* of the Silence unit it popped.
QueueShape ==
  /\ \A i \in InputIds : WellShaped(inputs[i].buffer)
  /\ [][/\ (rt_pc = "ingest" /\ rt_pc' # "ingest")
             => \A i \in InputIds :
                  (/\ Len(inputs'[i].buffer) = Len(inputs[i].buffer) + 1
                   /\ inputs'[i].buffer[Len(inputs'[i].buffer)].type = "Silence")
                    => AppendedSilence(inputs[i].buffer, inputs'[i].buffer)
        /\ (rt_pc = "drain" /\ inputs' # inputs)
             => /\ popped'.type = "Popped"
                /\ \A i \in InputIds :
                     IF i = popped'.input
                     THEN PoppedOrRequeued(inputs[i].buffer, inputs'[i].buffer)
                     ELSE inputs'[i] = inputs[i]
        /\ \A i \in InputIds : WellShaped(inputs'[i].buffer)]_vars

\* the drain popped a Silence unit longer than the frame and put the rest of it
\* back in front of the Samples unit behind it
QueueShapeWitness ==
  /\ rt_pc = "drain"
  /\ popped.type = "Popped" /\ popped.item.type = "Silence"
  /\ Len(inputs[popped.input].buffer) >= 2
  /\ Head(inputs[popped.input].buffer).type = "Silence"
  /\ Head(inputs[popped.input].buffer).count < popped.item.count
  /\ inputs[popped.input].buffer[2].type = "Samples"

\* no input holds a Samples unit
NoBacklog(ins) == \A i \in 1..Len(ins) : buffered_samples(ins[i]) = 0

\* the step is one iteration of the callback's drain loop
DrainIteration ==
  rt_pc = "drain" /\ (rt_pc' # "drain" \/ inputs' # inputs \/ popped' # popped)

\* the step is the callback's ingest
IngestPass == rt_pc = "ingest" /\ rt_pc' # "ingest"

\* what a step makes of a queue that is one Silence unit left by a fallback:
\* nothing, a Silence unit at least as long when the frame is silent, the new
\* Samples unit alone when it is not
KeptExtendedOrDiscarded(before, after, ingest, silent) ==
  \/ after = before
  \/ /\ ingest /\ silent
     /\ Len(after) = 1 /\ after[1].type = "Silence"
     /\ after[1].count >= before[1].count
  \/ /\ ingest /\ ~silent
     /\ Len(after) = 1 /\ after[1].type = "Samples"

\* C21 State after a fallback: a drain iteration that finds no input with backlog
\* zero-fills and ends the callback with the queues as they were, and a callback
\* that ends so leaves every queue empty or holding exactly one Silence unit;
\* that unit is never popped by the drain loop: until a non-silent ingest
\* discards it, it is the whole queue, only a silent ingest changes it, and
\* never to a shorter one.
FallbackLeavesSilence ==
  [][/\ (DrainIteration /\ NoBacklog(inputs))
          => /\ rt_pc' = "return"
             /\ inputs' = inputs
             /\ popped'.type = "None"
     /\ (DrainIteration /\ rt_pc' = "return" /\ popped'.type = "None")
          => \A i \in InputIds :
               \/ inputs'[i].buffer = << >>
               \/ /\ Len(inputs'[i].buffer) = 1
                  /\ inputs'[i].buffer[1].type = "Silence"
                  /\ trailing'[i]
     /\ \A i \in InputIds : trailing[i] =>
          /\ Len(inputs[i].buffer) = 1
          /\ inputs[i].buffer[1].type = "Silence"
          /\ (popped' # popped /\ popped'.type = "Popped") => popped'.input # i
          /\ KeptExtendedOrDiscarded(inputs[i].buffer, inputs'[i].buffer,
                                     IngestPass, IngestPass /\ IsSilent(ports[i]))
          /\ trailing'[i] = ~(IngestPass /\ ~IsSilent(ports[i]))]_vars

\* a fallback left input 2 one Silence unit; the next callback took a silent
\* frame for it, a non-silent one for input 1, and is about to drain input 1
FallbackLeavesSilenceWitness ==
  /\ rt_pc = "drain"
  /\ trailing[2]
  /\ Len(inputs[2].buffer) = 1 /\ inputs[2].buffer[1].type = "Silence"
  /\ buffered_samples(inputs[1]) > 0

====
